---- MODULE Spec2Model ----
(***************************************************************************)
(* Model of dev/log-regression-checker/log_regression_checker.py:          *)
(* check, update_master and update_release over Python dict objects.       *)
(* Dicts are objects on a heap (the code aliases them), a dict value is a  *)
(* function from the keys it holds to paths.                               *)
(***************************************************************************)
EXTENDS Integers, Sequences, FiniteSets, TLC

\* ---- universe of the inputs ----
Keys == {"a", "b"}
Paths == {"f1", "f2"}
Lines == {"L1", "L2"}
Tags == {"v1", "v2"}
MaxExpectedLen == 1
MaxCurrentLen == 2

\* ---- heap objects ----
UnmergedObj == 1
MasterObj == 2
NewObj == 3
PriorObj == 4

\* configs: the dict the caller passes in; its two entries are dict objects
configs == [unmerged |-> UnmergedObj, master |-> MasterObj]

\* master_contents[f], current_contents[f]: the log lines parse_log_lines yields
\* for what _get_master_contents(f) and _get_current_contents(f) return
VARIABLES heap, archives, last, ret, master_contents, current_contents
vars == <<heap, archives, last, ret, master_contents, current_contents>>

\* ---- Python dict / list helpers ----
EmptyDict == [k \in {} |-> "f1"]
Dicts == UNION {[S -> Paths] : S \in SUBSET Keys}
Range(s) == {s[i] : i \in DOMAIN s}
Values(d) == {d[k] : k \in DOMAIN d}
LineSeqs(max) == UNION {[1..n -> Lines] : n \in 0..max}
\* the orders in which a dict may iterate over its keys
Orders(S) == {s \in [1..Cardinality(S) -> S] : Range(s) = S}

\* d.update(e): every entry of e is written into d
UpdateKeepExisting(d, e) ==
    [k \in DOMAIN d \cup DOMAIN e |-> IF k \in DOMAIN d THEN d[k] ELSE e[k]]
Update(d, e) ==
    [k \in DOMAIN d \cup DOMAIN e |-> IF k \in DOMAIN e THEN e[k] ELSE d[k]]

\* ---- check ----
excluded_files_by_key(h) == DOMAIN h[configs.unmerged]
excluded_files(h) == Values(h[configs.unmerged])

\* ord: the iteration order of configs["master"].values()
files_to_check(h, ord) ==
    LET vals == [i \in DOMAIN ord |-> h[configs.master][ord[i]]]
    IN  SelectSeq(vals, LAMBDA file_to_check : file_to_check \notin excluded_files(h))

is_regression_inverted(log_line, expected_log_lines) ==
    \E i \in DOMAIN expected_log_lines : expected_log_lines[i] = log_line
is_regression(log_line, expected_log_lines) ==
    ~ \E i \in DOMAIN expected_log_lines : expected_log_lines[i] = log_line

record_failure_prepend(failures, log_file, log_line) ==
    LET f0 == [f \in DOMAIN failures \cup {log_file} |->
                 IF f \in DOMAIN failures THEN failures[f] ELSE <<>>]
    IN  [f0 EXCEPT ![log_file] = <<log_line>> \o @]
record_failure(failures, log_file, log_line) ==
    LET f0 == [f \in DOMAIN failures \cup {log_file} |->
                 IF f \in DOMAIN failures THEN failures[f] ELSE <<>>]
    IN  [f0 EXCEPT ![log_file] = Append(@, log_line)]

\* the inner loop: for log_line in current_log_lines
RECURSIVE scan_lines(_, _, _, _)
scan_lines(failures, log_file, expected_log_lines, current_log_lines) ==
    IF current_log_lines = <<>> THEN failures
    ELSE LET log_line == Head(current_log_lines)
             f1 == IF is_regression(log_line, expected_log_lines)
                   THEN record_failure(failures, log_file, log_line)
                   ELSE failures
         IN  scan_lines(f1, log_file, expected_log_lines, Tail(current_log_lines))

\* the outer loop: for log_file in files_to_check; acc carries failures and
\* the paths handed to the two fetch callbacks
RECURSIVE scan_files(_, _, _, _)
scan_files(acc, files, get_master, get_current) ==
    IF files = <<>> THEN acc
    ELSE LET log_file == Head(files)
             expected_log_lines == get_master[log_file]
             current_log_lines == get_current[log_file]
             acc1 == [failures |-> scan_lines(acc.failures, log_file,
                                              expected_log_lines, current_log_lines),
                      fetched |-> Append(acc.fetched, log_file)]
         IN  scan_files(acc1, Tail(files), get_master, get_current)

check(h, ord, get_master, get_current) ==
    scan_files([failures |-> [f \in {} |-> <<>>], fetched |-> <<>>],
               files_to_check(h, ord), get_master, get_current)

\* ---- update_master / update_release ----
\* merged_files = configs["unmerged"]; merged_files.update(configs["master"])
merged_files(h) ==
    [h EXCEPT ![configs.unmerged] = Update(h[configs.unmerged], h[configs.master])]

new_contents_master_only(h) == [unmerged |-> NewObj, master |-> configs.master]
new_contents(h) == [unmerged |-> NewObj, master |-> configs.unmerged]

update_master(h) ==
    LET h1 == merged_files(h)
    IN  [heap |-> [o \in DOMAIN h1 \cup {NewObj} |->
                     IF o = NewObj THEN EmptyDict ELSE h1[o]],
         value |-> new_contents(h)]

store_tag_if_absent(arch, tag, obj) ==
    [t \in DOMAIN arch \cup {tag} |-> IF t \in DOMAIN arch THEN arch[t] ELSE obj]
store_tag(arch, tag, obj) ==
    [t \in DOMAIN arch \cup {tag} |-> IF t = tag THEN obj ELSE arch[t]]

update_release_dry(h, arch, tag, verbose, dry_run) ==
    [heap |-> merged_files(h),
     archives |-> IF dry_run THEN arch ELSE store_tag(arch, tag, configs.unmerged)]
update_release(h, arch, tag, verbose, dry_run) ==
    [heap |-> merged_files(h),
     archives |-> store_tag(arch, tag, configs.unmerged)]

\* ---- the state machine ----
InitConfig ==
    /\ \E u \in Dicts, m \in Dicts :
         \/ /\ heap = [o \in {UnmergedObj, MasterObj} |->
                         IF o = UnmergedObj THEN u ELSE m]
            /\ archives = [t \in {} |-> PriorObj]
         \/ /\ heap = [o \in {UnmergedObj, MasterObj, PriorObj} |->
                         IF o = UnmergedObj THEN u
                         ELSE IF o = MasterObj THEN m
                         ELSE [k \in {"a"} |-> "f2"]]
            /\ archives = [t \in {"v1"} |-> PriorObj]
    /\ last = [op |-> "init"]
    /\ ret = "None"

\* the configuration life cycle runs against a few fixed file contents
Init ==
    /\ InitConfig
    /\ master_contents = [f \in Paths |-> <<"L1">>]
    /\ current_contents \in [Paths -> {<<"L1">>, <<"L2", "L1">>}]

\* check alone runs against every file content within the bounds
InitCheck ==
    /\ InitConfig
    /\ archives = [t \in {} |-> PriorObj]
    /\ master_contents \in [Paths -> LineSeqs(MaxExpectedLen)]
    /\ current_contents \in [Paths -> LineSeqs(MaxCurrentLen)]

world == <<master_contents, current_contents>>

Check ==
    \E ord \in Orders(DOMAIN heap[configs.master]) :
      LET r == check(heap, ord, master_contents, current_contents) IN
      /\ ret' = r.failures
      /\ last' = [op |-> "check", files_to_check |-> files_to_check(heap, ord),
                  fetched |-> r.fetched]
      /\ UNCHANGED <<heap, archives, world>>

UpdateMaster ==
    LET r == update_master(heap) IN
    /\ heap' = r.heap
    /\ ret' = r.value
    /\ last' = [op |-> "update_master", pre_heap |-> heap, pre_archives |-> archives]
    /\ UNCHANGED <<archives, world>>

UpdateRelease ==
    \E tag \in Tags, verbose \in BOOLEAN, dry_run \in BOOLEAN :
      LET r == update_release(heap, archives, tag, verbose, dry_run) IN
      /\ heap' = r.heap
      /\ archives' = r.archives
      /\ ret' = "archives"
      /\ last' = [op |-> "update_release", pre_heap |-> heap, pre_archives |-> archives,
                  tag |-> tag, verbose |-> verbose, dry_run |-> dry_run]
      /\ UNCHANGED world

\* the caller adds an entry to config.unmerged or config.master
CallerAdd ==
    \E which \in {"unmerged", "master"}, k \in Keys, p \in Paths :
      /\ k \notin DOMAIN heap[configs[which]]
      /\ heap' = [heap EXCEPT ![configs[which]] = Update(@, [x \in {k} |-> p])]
      /\ last' = [op |-> "caller_add"]
      /\ ret' = "None"
      /\ UNCHANGED <<archives, world>>

Next == Check \/ UpdateMaster \/ UpdateRelease \/ CallerAdd

Spec == Init /\ [][Next]_vars

NextCheck == Check

SpecCheck == InitCheck /\ [][NextCheck]_vars

\* ---- properties ----
pre_unmerged == last.pre_heap[configs.unmerged]
pre_master == last.pre_heap[configs.master]
is_update == last.op \in {"update_master", "update_release"}
inspected(h) == Values(h[configs.master]) \ Values(h[configs.unmerged])
\* the lines of cur that do not occur in exp, every occurrence, in order
Offending(cur, exp) == SelectSeq(cur, LAMBDA l : l \notin Range(exp))
\* s with only the first occurrence of each element kept
RECURSIVE FirstOccurrences(_)
FirstOccurrences(s) ==
    IF s = <<>> THEN <<>>
    ELSE LET r == FirstOccurrences(SubSeq(s, 1, Len(s) - 1))
         IN  IF s[Len(s)] \in Range(r) THEN r ELSE Append(r, s[Len(s)])
\* each path is the value of at most one key (the data model's invariant)
UniquePaths(d) == \A k1, k2 \in DOMAIN d : d[k1] = d[k2] => k1 = k2
\* the union of m and u in which m's path wins on a key both hold
MasterWins(m, u) ==
    [k \in DOMAIN m \cup DOMAIN u |-> IF k \in DOMAIN m THEN m[k] ELSE u[k]]
\* the union of m and u in which u's path wins on a key both hold
UnmergedWins(m, u) ==
    [k \in DOMAIN m \cup DOMAIN u |-> IF k \in DOMAIN u THEN u[k] ELSE m[k]]
Collision(m, u) == \E k \in DOMAIN m \cap DOMAIN u : m[k] # u[k]

\* C1: check inspects (lists, fetches and compares) exactly the paths that are
\* values of config.master and not values of config.unmerged; with no shared
\* path it inspects every master path, and a path that is a value of both
\* mappings is never fetched, whatever keys it is stored under.
C1_FilesToCheck ==
    last.op = "check" =>
      LET m == Values(heap[configs.master])
          u == Values(heap[configs.unmerged])
      IN  /\ Range(last.files_to_check) = m \ u
          /\ Range(last.fetched) = m \ u
          /\ (m \cap u = {} => Range(last.files_to_check) = m)
          /\ \A f \in m \cap u : f \notin Range(last.fetched)

\* C1 witness: a check ran where a path is shared under two different keys
\* and another master path was inspected.
C1_Witness ==
    /\ last.op = "check"
    /\ last.fetched # <<>>
    /\ \E k1 \in DOMAIN heap[configs.master], k2 \in DOMAIN heap[configs.unmerged] :
         /\ k1 # k2
         /\ heap[configs.master][k1] = heap[configs.unmerged][k2]
         /\ k1 \notin DOMAIN heap[configs.unmerged]

\* C2: a path is a key of the Failure Report iff it is a checked file with a
\* current line that is not among its master lines; every entry is non-empty,
\* and the report is empty exactly when every checked file's current lines
\* are a subset of its master lines.
C2_ReportKeys ==
    last.op = "check" =>
      /\ \A f \in Paths :
           f \in DOMAIN ret <=>
             /\ f \in Range(last.files_to_check)
             /\ \E i \in DOMAIN current_contents[f] :
                  current_contents[f][i] \notin Range(master_contents[f])
      /\ \A f \in DOMAIN ret : ret[f] # <<>>
      /\ (DOMAIN ret = {}) <=>
           \A f \in Range(last.files_to_check) :
             Range(current_contents[f]) \subseteq Range(master_contents[f])

\* C2 witness: a check of two files reported one of them and not the other.
C2_Witness ==
    /\ last.op = "check"
    /\ Len(last.files_to_check) = 2
    /\ Cardinality(DOMAIN ret) = 1
    /\ \E f \in Range(last.files_to_check) \ DOMAIN ret : current_contents[f] # <<>>

\* C3 (as stated): with unique master paths, a checked file with an offending
\* current line is reported with each distinct offending line once, in order
\* of first occurrence.
C3_FirstOccurrence ==
    (last.op = "check" /\ UniquePaths(heap[configs.master])) =>
      \A f \in Range(last.files_to_check) :
        Offending(current_contents[f], master_contents[f]) # <<>> =>
          /\ f \in DOMAIN ret
          /\ ret[f] = FirstOccurrences(Offending(current_contents[f], master_contents[f]))

\* C3 (amended): with unique master paths, a checked file with an offending
\* current line is reported with every occurrence of every offending line, in
\* the order of the current sequence (a line occurring twice is listed twice).
C3_EveryOccurrence ==
    (last.op = "check" /\ UniquePaths(heap[configs.master])) =>
      \A f \in Range(last.files_to_check) :
        Offending(current_contents[f], master_contents[f]) # <<>> =>
          /\ f \in DOMAIN ret
          /\ ret[f] = Offending(current_contents[f], master_contents[f])

\* C3 witness: a check reported a file whose offending line occurs twice.
C3_Witness ==
    /\ last.op = "check"
    /\ UniquePaths(heap[configs.master])
    /\ \E f \in Range(last.files_to_check) :
         /\ Len(Offending(current_contents[f], master_contents[f])) = 2
         /\ Len(FirstOccurrences(Offending(current_contents[f], master_contents[f]))) = 1

C5_UpdateMasterKeys ==
    last.op = "update_master" =>
      /\ heap[ret.unmerged] = EmptyDict
      /\ DOMAIN heap[ret.master] = DOMAIN pre_master \cup DOMAIN pre_unmerged

\* C5 witness: update_master ran where each mapping held a key the other lacks.
C5_Witness ==
    /\ last.op = "update_master"
    /\ DOMAIN pre_master \ DOMAIN pre_unmerged # {}
    /\ DOMAIN pre_unmerged \ DOMAIN pre_master # {}

\* C6: after update_master or update_release returns, the caller's
\* config.master and config.unmerged hold the entries they held before.
C6_ConfigUntouched ==
    is_update =>
      /\ heap[configs.unmerged] = pre_unmerged
      /\ heap[configs.master] = pre_master

C8_FlagsIrrelevant ==
    last.op = "update_release" =>
      \A verbose \in BOOLEAN, dry_run \in BOOLEAN :
        update_release(last.pre_heap, last.pre_archives, last.tag, verbose, dry_run)
          = [heap |-> heap, archives |-> archives]

\* C8 witness: update_release ran with dry_run set under a tag the archives
\* did not hold, and the archives hold it now.
C8_Witness ==
    /\ last.op = "update_release"
    /\ last.dry_run
    /\ last.tag \notin DOMAIN last.pre_archives
    /\ last.tag \in DOMAIN archives

\* C9: an update_master or update_release step leaves the mapping archived
\* under every tag unchanged, except for the tag update_release stores.
C9_Snapshot ==
    [][last'.op \in {"update_master", "update_release"} =>
         \A t \in DOMAIN archives :
           \/ last'.op = "update_release" /\ last'.tag = t
           \/ /\ t \in DOMAIN archives'
              /\ heap'[archives'[t]] = heap[archives[t]]]_vars

\* C10: after update_master or update_release, check inspects the same set
\* of files on the configuration as before the call.
C10_SameFilesInspected ==
    is_update => inspected(heap) = inspected(last.pre_heap)

====
